---- MODULE Spec2Model ----
(***************************************************************************)
(* A model of locoprop.py: the LocoLayer wrapper (its pseudo-inverse and   *)
(* Bregman loss) and LocopropTrainer (its constructor and its step).       *)
(*                                                                         *)
(* Tensors are abstracted: a gradient is one scalar, the same for every    *)
(* hidden state of one backward pass, kept as an exact rational or one of  *)
(* the IEEE specials inf, -inf, nan; a layer's                             *)
(* parameters are the number of optimizer steps applied to them; a         *)
(* recorded input is the number of correction writes it has received.      *)
(* All parameters of one layer share one requires_grad flag.               *)
(***************************************************************************)
EXTENDS Integers, Sequences, FiniteSets, TLC

\* ------------------------------------------------------------- bounds
MaxLayers == 2
MaxSteps == 2
MaxLocalIter == 1

\* ------------------------------------------------ numbers (float values)
RECURSIVE GCD(_, _)
GCD(a, b) == IF b = 0 THEN a ELSE GCD(b, a % b)

Abs(x) == IF x < 0 THEN -x ELSE x

\* The rational n/d in lowest terms, d > 0.
Fin(n, d) ==
    LET s == IF d < 0 THEN -1 ELSE 1
        g == GCD(Abs(n), Abs(d))
    IN  [k |-> "fin", n |-> (s * n) \div g, d |-> (s * d) \div g]

Nan == [k |-> "nan", n |-> 0, d |-> 1]
PosInf == [k |-> "inf", n |-> 1, d |-> 1]
NegInf == [k |-> "inf", n |-> -1, d |-> 1]
NoneV == [k |-> "None", n |-> 0, d |-> 1]

Sgn(v) == IF v.n > 0 THEN 1 ELSE IF v.n < 0 THEN -1 ELSE 0

InfOf(s) == IF s > 0 THEN PosInf ELSE NegInf

\* IEEE-754 product: 0 * inf is nan.
Mul(a, b) ==
    IF a.k = "nan" \/ b.k = "nan" THEN Nan
    ELSE IF a.k = "inf" \/ b.k = "inf"
         THEN IF Sgn(a) = 0 \/ Sgn(b) = 0 THEN Nan ELSE InfOf(Sgn(a) * Sgn(b))
         ELSE Fin(a.n * b.n, a.d * b.d)

\* IEEE-754 sum: inf + (-inf) is nan.
Add(a, b) ==
    IF a.k = "nan" \/ b.k = "nan" THEN Nan
    ELSE IF a.k = "inf" /\ b.k = "inf"
         THEN IF Sgn(a) = Sgn(b) THEN a ELSE Nan
         ELSE IF a.k = "inf" THEN a
         ELSE IF b.k = "inf" THEN b
         ELSE Fin(a.n * b.d + b.n * a.d, a.d * b.d)

\* IEEE-754 quotient of a tensor element by a finite float b: x / 0 is
\* inf, -inf or nan, never an exception.
Div(a, b) ==
    IF a.k = "nan" THEN Nan
    ELSE IF b.n = 0 THEN (IF Sgn(a) = 0 THEN Nan ELSE InfOf(Sgn(a)))
    ELSE IF a.k = "inf" THEN InfOf(Sgn(a) * Sgn(b))
    ELSE Fin(a.n * b.d, a.d * b.n)

Sub(a, b) == Add(a, Mul(Fin(-1, 1), b))

RECURSIVE Pow(_, _)
Pow(a, e) == IF e = 0 THEN Fin(1, 1) ELSE Mul(a, Pow(a, e - 1))

Less(a, b) == a.n * b.d < b.n * a.d

RatMax(a, b) == IF Less(a, b) THEN b ELSE a

One == Fin(1, 1)
Zero == Fin(0, 1)

\* ------------------------------------------------------------- layers
Supported == {"Sigmoid", "Tanh", "ReLU", "Softmax"}
Acts == Supported \cup {"GELU"}

\* A layer of the nn.Sequential: a LocoLayer with its activation, or any
\* other module; params: it owns parameters.
LayerChoices ==
    [loco : {TRUE}, act : Acts, params : BOOLEAN]
        \cup [loco : {FALSE}, act : {"none"}, params : BOOLEAN]

Momenta == {Zero, Fin(1, 2)}
Corrections == {Zero, Fin(1, 10)}
GradVals == {Zero, One}

VARIABLES
    pc,               \* position of the caller / of step
    model,            \* the layers
    requires_grad,    \* per layer: its parameters' requires_grad
    momentum, correction, local_iterations,
    opts,             \* self.opts
    grads,            \* self.grads
    stepCount,        \* self._step
    warned,           \* per layer: warnings.warn calls of the constructor
    inps, hiddens,    \* step's locals
    hidden_loss,
    params,           \* per layer: optimizer steps applied to its parameters
    i, j, base_lr, post_target,
    loc,              \* per layer, this call: local iterations done, input read
    call              \* outcome of the most recent public call

vars == <<pc, model, requires_grad, momentum, correction, local_iterations,
          opts, grads, stepCount, warned, inps, hiddens, hidden_loss, params,
          i, j, base_lr, post_target, loc, call>>

N == Len(model)
Layers == 1..N

NoOpt == [kind |-> "None", owner |-> 0, lr |-> Zero, made |-> "none"]
NoInp == [layer |-> 0, corr |-> 0, by |-> 0]
NoLoc == [iters |-> 0, read |-> -1, corrected |-> FALSE]
NoTarget == [layer |-> 0, grad |-> NoneV, inp |-> NoInp]
NoCall == [op |-> "none", layer |-> 0, err |-> "none", ret |-> <<>>]

IsLoco(l) == model[l].loco

\* sum(p.numel() for p in layer.parameters() if p.requires_grad) > 0
TrainableParams(l) == model[l].params /\ requires_grad[l]

Init ==
    /\ pc = "new"
    /\ \E n \in 1..MaxLayers :
          /\ model \in [1..n -> LayerChoices]
          /\ requires_grad \in [1..n -> BOOLEAN]
          /\ \A l \in 1..n : requires_grad[l] => model[l].params
          \* the activation kinds are varied on the layers step trains
          /\ \A l \in 1..n : (model[l].loco /\ ~requires_grad[l])
                                  => model[l].act = "Sigmoid"
          /\ params = [l \in 1..n |-> 0]
          /\ warned = [l \in 1..n |-> 0]
          /\ loc = [l \in 1..n |-> NoLoc]
    /\ momentum \in Momenta
    /\ correction \in Corrections
    /\ local_iterations \in 0..MaxLocalIter
    /\ opts = <<>>
    /\ grads = <<>>
    /\ stepCount = 0
    /\ inps = <<>>
    /\ hiddens = <<>>
    /\ hidden_loss = <<>>
    /\ i = 0
    /\ j = 0
    /\ base_lr = Zero
    /\ post_target = NoTarget
    /\ call = NoCall

\* ------------------------------------------- LocopropTrainer.__init__
\* One optimizer over the layer's parameters, at the hyperparameters' lr
\* (lr is kept relative to that configured rate).
NewOptimizer(l) == [kind |-> "Optimizer", owner |-> l, lr |-> One, made |-> "init"]

\* A constructor that gives every LocoLayer a slot, whatever its parameters.
RECURSIVE InitOptsEveryLoco(_)
InitOptsEveryLoco(l) ==
    IF l = 0 THEN <<>>
    ELSE Append(InitOptsEveryLoco(l - 1), IF IsLoco(l) THEN NewOptimizer(l) ELSE NoOpt)

RECURSIVE InitOpts(_)
InitOpts(l) ==
    IF l = 0 THEN <<>>
    ELSE Append(InitOpts(l - 1),
                IF IsLoco(l) /\ TrainableParams(l) THEN NewOptimizer(l) ELSE NoOpt)

InitWarnings ==
    [l \in Layers |-> IF TrainableParams(l) /\ ~IsLoco(l) THEN 1 ELSE 0]

Construct ==
    /\ pc = "new"
    /\ opts' = InitOpts(N)
    /\ warned' = InitWarnings
    /\ grads' = <<>>
    /\ stepCount' = 0
    /\ pc' = "idle"
    /\ call' = [NoCall EXCEPT !.op = "init"]
    /\ UNCHANGED <<model, requires_grad, momentum, correction, local_iterations,
                   inps, hiddens, hidden_loss, params, i, j, base_lr,
                   post_target, loc>>

\* ------------------------------------------------------- LocoLayer
\* The names bound when _pseudo_inverse is entered: its parameters. The
\* body never reads target; it reads y, which is a local of the function
\* (the ReLU branch assigns it) and is bound by no parameter.
PseudoInverseParams == {"self", "target"}

ReadLocalY == IF "y" \in PseudoInverseParams THEN "none" ELSE "UnboundLocalError"

\* _pseudo_inverse: the exception it ends with ("none": it returns).
\* Every supported branch starts by reading y; any other activation falls
\* through to the raise ValueError.
PseudoInverseErr(act) ==
    CASE act = "Sigmoid" -> ReadLocalY
      [] act = "Tanh" -> ReadLocalY
      [] act = "ReLU" -> ReadLocalY
      [] act = "Softmax" -> ReadLocalY
      [] OTHER -> "UnsupportedActivation"

\* function_mapping is keyed by the activation classes.
FunctionMappingKeys == [cls : Supported, instance : {FALSE}]

\* self.activation is a module instance.
ActivationObject(act) == [cls |-> act, instance |-> TRUE]

\* The names the module binds at top level; F is not among them.
ModuleGlobals ==
    {"functools", "math", "typing", "warnings", "torch", "nn",
     "function_mapping", "LocoLayer", "LocopropTrainer"}

\* Calling the potential function_mapping holds for a class: the ReLU
\* lambda reads the global F.
PotentialErr(cls) ==
    IF cls = "ReLU" /\ "F" \notin ModuleGlobals THEN "NameError" ELSE "none"

\* bregman_loss: the exception it ends with ("none": it returns), in the
\* order of its statements.
BregmanLossErr(act) ==
    IF PseudoInverseErr(act) # "none" THEN PseudoInverseErr(act)
    ELSE IF ActivationObject(act) \notin FunctionMappingKeys THEN "KeyError"
    ELSE PotentialErr(act)

Resting == pc \in {"idle", "returned", "raised"}

StepLocals == <<inps, hiddens, hidden_loss, i, j, base_lr, post_target, loc>>
Hyper == <<model, momentum, correction, local_iterations>>

CallPseudoInverse(l) ==
    /\ pc \in {"new", "idle", "returned", "raised"}
    /\ IsLoco(l)
    /\ call' = [op |-> "pseudoInverse", layer |-> l,
                err |-> PseudoInverseErr(model[l].act), ret |-> <<>>]
    /\ pc' = IF pc = "new" THEN "new" ELSE "idle"
    /\ UNCHANGED <<Hyper, StepLocals, requires_grad, opts, grads, stepCount,
                   warned, params>>

CallBregmanLoss(l) ==
    /\ pc \in {"new", "idle", "returned", "raised"}
    /\ IsLoco(l)
    /\ call' = [op |-> "bregmanLoss", layer |-> l,
                err |-> BregmanLossErr(model[l].act), ret |-> <<>>]
    /\ pc' = IF pc = "new" THEN "new" ELSE "idle"
    /\ UNCHANGED <<Hyper, StepLocals, requires_grad, opts, grads, stepCount,
                   warned, params>>

\* The caller overwrites a Plain Layer's slot of trainer.opts with an
\* optimizer: the corruption step's isinstance check guards against.
Corrupt(k) ==
    /\ Resting
    /\ k \in 1..Len(opts)
    /\ ~IsLoco(k)
    /\ opts[k].kind = "None"
    /\ opts' = [opts EXCEPT ![k] =
                   [kind |-> "Optimizer", owner |-> k, lr |-> One, made |-> "caller"]]
    /\ pc' = "idle"
    /\ call' = NoCall
    /\ UNCHANGED <<Hyper, StepLocals, requires_grad, grads, stepCount, warned,
                   params>>

\* ----------------------------------------------- LocopropTrainer.step
Min(a, b) == IF a < b THEN a ELSE b

NoHidden == [some |-> FALSE, grad |-> NoneV]

\* The forward loop over zip(self.model, self.opts): every layer's input
\* is recorded; a hidden state is captured for a LocoLayer with a slot.
ForwardInps == [l \in 1..Min(N, Len(opts)) |-> [layer |-> l, corr |-> 0, by |-> 0]]

ForwardHiddens ==
    [l \in 1..Min(N, Len(opts)) |->
        IF opts[l].kind # "None" /\ IsLoco(l)
        THEN [some |-> TRUE, grad |-> NoneV]
        ELSE NoHidden]

\* self._step += 1, the forward pass and the global loss. The loss is a
\* function of the parameters: it is kept as the parameters it was
\* computed from.
StepForward ==
    /\ Resting
    /\ stepCount < MaxSteps
    /\ stepCount' = stepCount + 1
    /\ inps' = ForwardInps
    /\ hiddens' = ForwardHiddens
    /\ hidden_loss' = params
    /\ loc' = [l \in Layers |-> NoLoc]
    /\ i' = 0
    /\ j' = 0
    /\ base_lr' = Zero
    /\ post_target' = NoTarget
    /\ call' = [op |-> "step", layer |-> 0, err |-> "none", ret |-> <<>>]
    /\ pc' = "backward"
    /\ UNCHANGED <<Hyper, requires_grad, opts, grads, warned, params>>

\* hidden_loss.backward(): every captured hidden state receives a gradient
\* (hidden.grad), the value g of this pass.
Backward ==
    /\ pc = "backward"
    /\ \E g \in GradVals :
          hiddens' = [l \in DOMAIN hiddens |->
                         IF hiddens[l].some THEN [hiddens[l] EXCEPT !.grad = g]
                         ELSE hiddens[l]]
    /\ pc' = "smooth"
    /\ UNCHANGED <<Hyper, requires_grad, opts, grads, stepCount, warned, inps,
                   hidden_loss, params, i, j, base_lr, post_target, loc, call>>

\* grads = [None if h is None ... or h.grad is None else h.grad ...]
FreshGrads ==
    [l \in DOMAIN hiddens |->
        IF ~hiddens[l].some \/ hiddens[l].grad.k = "None" THEN NoneV
        ELSE hiddens[l].grad]

Debias == Sub(One, Pow(Sub(One, momentum), stepCount))

\* One element of the smoothed list, from the fresh gradient g and the
\* stored m.
SmoothOne(g, m) ==
    IF m.k = "None" THEN NoneV
    ELSE Div(Add(Mul(Sub(One, momentum), g), Mul(momentum, m)), Debias)

\* (1 - momentum) * None raises TypeError.
SmoothRaises ==
    /\ Len(grads) # 0
    /\ \E l \in 1..Min(Len(hiddens), Len(grads)) :
          grads[l].k # "None" /\ FreshGrads[l].k = "None"

\* A smoothing that keeps only the layers that have a gradient.
SmoothedDropNone ==
    SelectSeq(IF Len(grads) = 0 THEN FreshGrads
              ELSE [l \in 1..Min(Len(hiddens), Len(grads)) |->
                       SmoothOne(FreshGrads[l], grads[l])],
              LAMBDA g : g.k # "None")

Smoothed ==
    IF Len(grads) = 0 THEN FreshGrads
    ELSE [l \in 1..Min(Len(hiddens), Len(grads)) |-> SmoothOne(FreshGrads[l], grads[l])]

SmoothGrads ==
    /\ pc = "smooth"
    /\ IF SmoothRaises
       THEN /\ pc' = "raised"
            /\ call' = [call EXCEPT !.err = "TypeError"]
            /\ UNCHANGED grads
       ELSE /\ pc' = "restore"
            /\ grads' = Smoothed
            /\ UNCHANGED call
    /\ UNCHANGED <<Hyper, StepLocals, requires_grad, opts, stepCount, warned,
                   params>>

\* for p in self.model.parameters(): p.requires_grad = True
AllRequireGrad == [l \in Layers |-> model[l].params]

RestoreRequiresGrad ==
    /\ pc = "restore"
    /\ requires_grad' = AllRequireGrad
    /\ i' = 1
    /\ pc' = "layer"
    /\ UNCHANGED <<Hyper, opts, grads, stepCount, warned, inps, hiddens,
                   hidden_loss, params, j, base_lr, post_target, loc, call>>

\* The length of zip(self.opts, self.model, self.grads).
LoopLen == Min(Min(Len(opts), N), Len(grads))

\* return hidden_loss
Return ==
    /\ pc = "layer"
    /\ i > LoopLen
    /\ pc' = "returned"
    /\ call' = [call EXCEPT !.ret = hidden_loss]
    /\ UNCHANGED <<Hyper, StepLocals, requires_grad, opts, grads, stepCount,
                   warned, params>>

\* if opt is None: continue
SkipLayer ==
    /\ pc = "layer"
    /\ i <= LoopLen
    /\ opts[i].kind = "None"
    /\ i' = i + 1
    /\ UNCHANGED <<Hyper, pc, requires_grad, opts, grads, stepCount, warned,
                   inps, hiddens, hidden_loss, params, j, base_lr, post_target,
                   loc, call>>

\* if not isinstance(layer, LocoLayer): raise ValueError(...)
RaiseInconsistent ==
    /\ pc = "layer"
    /\ i <= LoopLen
    /\ opts[i].kind # "None"
    /\ ~IsLoco(i)
    /\ pc' = "raised"
    /\ call' = [call EXCEPT !.err = "InconsistentConfiguration"]
    /\ UNCHANGED <<Hyper, StepLocals, requires_grad, opts, grads, stepCount,
                   warned, params>>

\* The target of layer i, from its recorded input and its smoothed
\* gradient; learning_rate * None raises TypeError.
BeginLocal ==
    /\ pc = "layer"
    /\ i <= LoopLen
    /\ opts[i].kind # "None"
    /\ IsLoco(i)
    /\ IF grads[i].k = "None"
       THEN /\ pc' = "raised"
            /\ call' = [call EXCEPT !.err = "TypeError"]
            /\ UNCHANGED <<post_target, base_lr, j, loc>>
       ELSE /\ post_target' = [layer |-> i, grad |-> grads[i], inp |-> inps[i]]
            /\ loc' = [loc EXCEPT ![i].read = inps[i].corr]
            /\ base_lr' = opts[i].lr
            /\ j' = 0
            /\ pc' = "local"
            /\ UNCHANGED call
    /\ UNCHANGED <<Hyper, requires_grad, opts, grads, stepCount, warned, inps,
                   hiddens, hidden_loss, params, i>>

\* base_lr * max(1.0 - j / self.local_iterations, 0.25)
ScheduledLr(base, jj) ==
    Mul(base, RatMax(Sub(One, Fin(jj, local_iterations)), Fin(1, 4)))

\* One local iteration: set the rate, zero_grad, the mean Bregman loss,
\* backward, opt.step(). An exception of bregman_loss leaves the loop with
\* the rate as set and no optimizer step taken.
LocalIteration ==
    /\ pc = "local"
    /\ j < local_iterations
    /\ opts' = [opts EXCEPT ![i].lr = ScheduledLr(base_lr, j)]
    /\ IF BregmanLossErr(model[i].act) # "none"
       THEN /\ pc' = "raised"
            /\ call' = [call EXCEPT !.err = BregmanLossErr(model[i].act)]
            /\ UNCHANGED <<params, j, loc>>
       ELSE /\ params' = [params EXCEPT ![i] = @ + 1]
            /\ loc' = [loc EXCEPT ![i].iters = @ + 1]
            /\ j' = j + 1
            /\ UNCHANGED <<pc, call>>
    /\ UNCHANGED <<Hyper, requires_grad, grads, stepCount, warned, inps,
                   hiddens, hidden_loss, i, base_lr, post_target>>

\* opt.param_groups[0]["lr"] = base_lr
FinishLocal ==
    /\ pc = "local"
    /\ j >= local_iterations
    /\ opts' = [opts EXCEPT ![i].lr = base_lr]
    /\ pc' = "correct"
    /\ UNCHANGED <<Hyper, StepLocals, requires_grad, grads, stepCount, warned,
                   params, call>>

\* A correction that is not switched off by correction = 0.
CorrectionAlways == i < Len(inps)

\* if self.correction > 0 and i + 1 < len(inps)   (i counted from 0 there)
CorrectionEnabled == correction.n > 0 /\ i < Len(inps)

\* The correction of the next layer's recorded input, from this layer's
\* output under its parameters as they now are.
Correct ==
    /\ pc = "correct"
    /\ IF CorrectionEnabled
       THEN /\ inps' = [inps EXCEPT ![i + 1].corr = @ + 1, ![i + 1].by = params[i]]
            /\ loc' = [loc EXCEPT ![i].corrected = TRUE]
       ELSE UNCHANGED <<inps, loc>>
    /\ i' = i + 1
    /\ pc' = "layer"
    /\ UNCHANGED <<Hyper, requires_grad, opts, grads, stepCount, warned,
                   hiddens, hidden_loss, params, j, base_lr, post_target, call>>

Next ==
    \/ Construct
    \/ \E l \in Layers : CallPseudoInverse(l)
    \/ \E l \in Layers : CallBregmanLoss(l)
    \/ \E k \in Layers : Corrupt(k)
    \/ StepForward
    \/ Backward
    \/ SmoothGrads
    \/ RestoreRequiresGrad
    \/ Return
    \/ SkipLayer
    \/ RaiseInconsistent
    \/ BeginLocal
    \/ LocalIteration
    \/ FinishLocal
    \/ Correct

Spec == Init /\ [][Next]_vars

\* ------------------------------------------------------------ claims
Finished == pc \in {"returned", "raised"}

HasSlot(l) == l \in 1..Len(opts) /\ opts[l].kind # "None"

\* Every optimizer slot belongs to a LocoLayer with a supported activation.
Consistent == \A l \in 1..Len(opts) :
                 HasSlot(l) => IsLoco(l) /\ model[l].act \in Supported

\* No step call has reached its gradient smoothing yet.
NoSmoothingYet == stepCount = 0 \/ (stepCount = 1 /\ pc \in {"backward", "smooth"})

OptsAligned ==
    /\ Len(opts) = N
    /\ \A l \in 1..Len(opts) : opts[l].kind # "None" => opts[l].owner = l

GradsAligned ==
    /\ Len(grads) = N
    /\ \A l \in 1..Len(grads) :
          grads[l].k # "None" => l <= N /\ IsLoco(l) /\ HasSlot(l)

\* C1 as stated: in every state of a Trainer, from construction on, the
\* optimizer slots, the gradient-EMA slots and the layers are equally many
\* and slot l of each list belongs to layer l.
C1_AlwaysEqualLength == pc # "new" => OptsAligned /\ GradsAligned

\* C1 as amended: the optimizer slots are always one per layer, slot l
\* built for layer l; the gradient-EMA list is empty from construction
\* until the first step call's gradient smoothing, and from then on it is
\* one per layer too, slot l holding a gradient only for a layer l that
\* has a hidden state of its own.
C1_SlotsAligned ==
    pc # "new" =>
        /\ OptsAligned
        /\ IF NoSmoothingYet THEN grads = <<>> ELSE GradsAligned

\* C1: a second step call has ended on a two-layer model whose layer 1
\* has no hidden state and whose layer 2 has one.
C1_Witness ==
    /\ Finished
    /\ stepCount = 2
    /\ N = 2
    /\ Len(grads) = 2
    /\ grads[1].k = "None"
    /\ grads[2].k # "None"

\* C2: with momentum = 0, once a step call has smoothed the gradients, the
\* stored EMA of every layer with a captured hidden state equals the
\* gradient that call's backward pass produced for it.
C2_EmaIsGradient ==
    (/\ momentum = Zero
     /\ call.op = "step"
     /\ pc \in {"restore", "layer", "local", "correct", "returned", "raised"})
        => \A l \in 1..Min(Len(hiddens), Len(grads)) :
              hiddens[l].some => grads[l] = hiddens[l].grad

\* C3: a step call on a Trainer with a slot on a Plain Layer ends by
\* raising InconsistentConfiguration, and no layer's parameters differ
\* from what they were when the call began.
C3_FailsInconsistent ==
    (Finished /\ \E k \in 1..Len(opts) : HasSlot(k) /\ ~IsLoco(k))
        => /\ pc = "raised"
           /\ call.err = "InconsistentConfiguration"
           /\ params = hidden_loss

\* C4: pseudoInverse and bregmanLoss fail exactly for an activation kind
\* outside the supported set, and then with UnsupportedActivation.
C4_FailsIffUnsupported ==
    call.op \in {"pseudoInverse", "bregmanLoss"} =>
        /\ call.err # "none" <=> model[call.layer].act \notin Supported
        /\ call.err # "none" => call.err = "UnsupportedActivation"

\* C5: a step call on a consistently configured Trainer with at least one
\* local iteration ends by returning, and what it returns is the loss of
\* the forward pass.
C5_RunsToCompletion ==
    (Finished /\ Consistent /\ local_iterations >= 1)
        => pc = "returned" /\ call.err = "none" /\ call.ret = hidden_loss

\* C6: right after construction, layer l has an optimizer slot exactly
\* when it is a LocoLayer with trainable parameters, and exactly one
\* warning was issued for each layer that has trainable parameters and is
\* no LocoLayer, none for any other layer.
C6_ConstructedSlots ==
    (pc = "idle" /\ call.op = "init") =>
        /\ Len(opts) = N
        /\ \A l \in Layers :
              /\ opts[l].kind # "None" <=> (IsLoco(l) /\ TrainableParams(l))
              /\ warned[l] = IF TrainableParams(l) /\ ~IsLoco(l) THEN 1 ELSE 0

\* C6: a freshly built Trainer over a trainable Plain Layer (warned, no
\* slot) followed by a trainable LocoLayer (slot, no warning).
C6_Witness ==
    /\ pc = "idle"
    /\ call.op = "init"
    /\ N = 2
    /\ ~IsLoco(1) /\ TrainableParams(1) /\ warned[1] = 1 /\ opts[1].kind = "None"
    /\ IsLoco(2) /\ TrainableParams(2) /\ warned[2] = 0 /\ opts[2].kind = "Optimizer"

\* C7: in every state of a Trainer, a layer with trainable parameters and
\* no optimizer slot was warned about at construction.
C7_UnslottedWasWarned ==
    pc # "new" =>
        \A l \in 1..Len(opts) :
            (TrainableParams(l) /\ opts[l].kind = "None") => warned[l] >= 1

\* C8: with correction = 0 every recorded input stays as the forward pass
\* captured it, and no layer's correction writes to one.
C8_NoCorrectionWrite ==
    correction = Zero =>
        /\ \A l \in 1..Len(inps) : inps[l] = [layer |-> l, corr |-> 0, by |-> 0]
        /\ \A l \in Layers : ~loc[l].corrected
        /\ post_target.inp.corr = 0

\* C8: a call that went past layer 1's correction point and on to layer 2's
\* target, with correction = 0.
C8_Witness ==
    /\ pc = "returned"
    /\ correction = Zero
    /\ N = 2
    /\ HasSlot(1) /\ HasSlot(2)
    /\ loc[2].read = 0
    /\ inps[2].corr = 0

\* C9: when a step call on a consistently configured Trainer has ended,
\* every layer with a slot has had exactly local_iterations optimizer
\* steps in it and its optimizer is back at the base rate; inside the
\* loop the rate of iteration j is base * max(1 - j/local_iterations, 1/4).
C9_AllLocalIterations ==
    /\ (Finished /\ Consistent) =>
          \A l \in 1..Len(opts) :
              HasSlot(l) => loc[l].iters = local_iterations /\ opts[l].lr = One
    /\ (pc = "local" /\ j > 0) => opts[i].lr = ScheduledLr(base_lr, j - 1)

====
